---- MODULE Spec2Model ----
(***************************************************************************)
(* Streaming normalisation pipelines of custom_hls: layernorm_pipeline     *)
(* (mean_stage -> var_stage -> inv_sqrt_stage) and rmsnorm_pipeline        *)
(* (square_mean_stage -> inv_sqrt_stage).  Every stage is a function with  *)
(* function-local static state that is activated repeatedly and talks to   *)
(* its neighbours through hls::stream queues.                              *)
(*                                                                         *)
(* Scalars of type TO are modelled as exact rationals <<n, d>> in lowest   *)
(* terms (d = 0 stands for the result of a division by zero).  An output   *)
(* vector is kept as the expression the code evaluates: the raw vector     *)
(* together with the statistic it was normalised with.                     *)
(***************************************************************************)
EXTENDS Integers, Sequences, FiniteSets, TLC

VARIABLES
    cfg,            \* template parameters: [mode, N, SIMD], test shape [rounds]
    src,            \* input stream
    dst,            \* output stream
    stage1_s,       \* raw pass-through queue behind the accumulator stage
    mean_s,         \* statistic queue behind the accumulator stage
    stage2_s,       \* raw pass-through queue behind var_stage (layernorm)
    varmean_s,      \* {mean, var} queue behind var_stage (layernorm)
    acc,            \* statics of mean_stage / square_mean_stage
    vst,            \* statics of var_stage
    ist,            \* statics of inv_sqrt_stage
    consumed,       \* history: vectors read from src, in order
    raws,           \* history: vectors written to stage1_s, in order
    stats,          \* history: statistics written to mean_s, in order
    calls,          \* testbench: number of calls of the top function so far
    srcB,           \* input stream of a second caller of the same instantiation
    dstB            \* output stream of that second caller

vars == <<cfg, src, dst, stage1_s, mean_s, stage2_s, varmean_s,
          acc, vst, ist, consumed, raws, stats, calls, srcB, dstB>>

----------------------------------------------------------------------------
\* Bounds of the model

\* largest scalar value of an input element
MaxVal == 1
\* number of vectors the environment writes to src
MaxVecs == 4
\* number of vectors that may wait in src
MaxSrc == 1

----------------------------------------------------------------------------
\* Exact rational arithmetic for the scalar type TO

Abs(x) == IF x < 0 THEN -x ELSE x

Sgn(x) == IF x < 0 THEN -1 ELSE IF x > 0 THEN 1 ELSE 0

RECURSIVE GCD(_, _)
GCD(a, b) == IF b = 0 THEN a ELSE GCD(b, a % b)

\* n / d in lowest terms, with a positive denominator
Norm(n, d) ==
    IF d = 0 THEN <<Sgn(n), 0>>
    ELSE LET g == GCD(Abs(n), Abs(d))
         IN  <<(Sgn(d) * n) \div g, Abs(d) \div g>>

Zero == <<0, 1>>

\* TO(in[i]): conversion of an input scalar to the output type
ToTO(x) == <<x, 1>>

\* The arithmetic on two fractions a and b.  Each operator below binds its
\* operands to a variable first, so that an operand which is itself a long
\* expression is evaluated once and not once per occurrence.
AddOf(a, b) == Norm(a[1] * b[2] + b[1] * a[2], a[2] * b[2])

SubOf(a, b) == Norm(a[1] * b[2] - b[1] * a[2], a[2] * b[2])

MulOf(a, b) == Norm(a[1] * b[1], a[2] * b[2])

DivOf(a, c) == Norm(a[1], a[2] * c)

RAdd(a, b) == CHOOSE r \in {AddOf(p[1], p[2]) : p \in {<<a, b>>}} : TRUE

RSub(a, b) == CHOOSE r \in {SubOf(p[1], p[2]) : p \in {<<a, b>>}} : TRUE

RMul(a, b) == CHOOSE r \in {MulOf(p[1], p[2]) : p \in {<<a, b>>}} : TRUE

\* sum / count with an integer count
RDivInt(a, c) == CHOOSE r \in {DivOf(p[1], p[2]) : p \in {<<a, c>>}} : TRUE

----------------------------------------------------------------------------
\* utils.hpp

\* constexpr clog2: ceil(log2(x))
RECURSIVE clog2(_)
clog2(x) == IF x < 2 THEN 0 ELSE 1 + clog2((x + 1) \div 2)

RECURSIVE Pow2(_)
Pow2(w) == IF w = 0 THEN 1 ELSE 2 * Pow2(w - 1)

\* value kept by an ap_uint<w>
ApUint(w, x) == x % Pow2(w)

\* TreeReduction<SIMD>::reduce: balanced pairwise sum of v[lo..hi]
RECURSIVE TreeReduce(_, _, _)
TreeReduce(v, lo, hi) ==
    IF lo = hi THEN v[lo]
    ELSE LET mid == (lo + hi) \div 2
         IN  RAdd(TreeReduce(v, lo, mid), TreeReduce(v, mid + 1, hi))

reduce(v, SIMD) == TreeReduce(v, 1, SIMD)

----------------------------------------------------------------------------
\* The state as one record, so that stages compose as functions

St == [cfg |-> cfg, src |-> src, dst |-> dst, stage1_s |-> stage1_s,
       mean_s |-> mean_s, stage2_s |-> stage2_s, varmean_s |-> varmean_s,
       acc |-> acc, vst |-> vst, ist |-> ist,
       consumed |-> consumed, raws |-> raws, stats |-> stats,
       calls |-> calls]

Commit(s) ==
    /\ cfg' = s.cfg
    /\ src' = s.src
    /\ dst' = s.dst
    /\ stage1_s' = s.stage1_s
    /\ mean_s' = s.mean_s
    /\ stage2_s' = s.stage2_s
    /\ varmean_s' = s.varmean_s
    /\ acc' = s.acc
    /\ vst' = s.vst
    /\ ist' = s.ist
    /\ consumed' = s.consumed
    /\ raws' = s.raws
    /\ stats' = s.stats
    /\ calls' = s.calls
    /\ UNCHANGED <<srcB, dstB>>

\* vectors per window
VPW(c) == c.N \div c.SIMD

----------------------------------------------------------------------------
\* layernorm.hpp

\* a plausible slip: the running sum survives the window boundary
acc_reset_keeps_sum(a) == [count |-> 0, sum |-> a.sum, mean |-> Zero]

\* "if (count == N)": count = 0; mean = 0; sum = 0
acc_reset(a) == [count |-> 0, sum |-> Zero, mean |-> Zero]

\* accumulator step shared by the two first stages: contrib is the vector
\* that is reduced into the running sum
AccStep(s, contrib) ==
    LET N     == s.cfg.N
        SIMD  == s.cfg.SIMD
        in    == Head(s.src)
        out   == [i \in 1..SIMD |-> ToTO(in[i])]
        sum   == RAdd(s.acc.sum, reduce(contrib, SIMD))
        count == ApUint(clog2(N), s.acc.count + SIMD)
        mean  == RDivInt(sum, count)
        s1    == [s EXCEPT !.src = Tail(@),
                           !.stage1_s = Append(@, out),
                           !.consumed = Append(@, in),
                           !.raws = Append(@, out)]
    IN  IF count = N
        THEN [s1 EXCEPT !.mean_s = Append(@, mean),
                        !.stats = Append(@, mean),
                        !.acc = acc_reset([count |-> count, sum |-> sum,
                                           mean |-> mean])]
        ELSE [s1 EXCEPT !.acc = [count |-> count, sum |-> sum, mean |-> mean]]

mean_stage(s) ==
    IF s.src # <<>>
    THEN AccStep(s, [i \in 1..s.cfg.SIMD |-> ToTO(Head(s.src)[i])])
    ELSE s

\* a plausible slip: pow_sum is not cleared with the window
var_reset_keeps_pow_sum(s) ==
    [s EXCEPT !.vst = [@ EXCEPT !.count = 0, !.valid = FALSE, !.var = Zero],
              !.varmean_s = Append(@, [mean |-> s.vst.mean, var |-> s.vst.var])]

\* a plausible slip: x = { mean, var } is built after var was cleared
var_reset_emits_cleared(s) ==
    [s EXCEPT !.vst = [@ EXCEPT !.count = 0, !.valid = FALSE,
                                !.pow_sum = Zero, !.var = Zero],
              !.varmean_s = Append(@, [mean |-> s.vst.mean, var |-> Zero])]

\* var_stage, "if (count == N)": emit {mean, var}, reset, return
var_reset(s) ==
    [s EXCEPT !.vst = [@ EXCEPT !.count = 0, !.valid = FALSE,
                                !.pow_sum = Zero, !.var = Zero],
              !.varmean_s = Append(@, [mean |-> s.vst.mean, var |-> s.vst.var])]

\* a plausible slip: out_s.write(in) is missing, the vector is only summed
var_consume_no_forward(s) ==
    LET N    == s.cfg.N
        SIMD == s.cfg.SIMD
    IN  IF s.vst.valid /\ s.stage1_s # <<>>
        THEN LET in      == Head(s.stage1_s)
                 pow_res == [i \in 1..SIMD |->
                               LET dlt == RSub(in[i], s.vst.mean)
                               IN  RMul(dlt, dlt)]
                 pow_sum == RAdd(s.vst.pow_sum, reduce(pow_res, SIMD))
                 count   == ApUint(clog2(N), s.vst.count + SIMD)
             IN  [s EXCEPT !.stage1_s = Tail(@),
                           !.vst = [@ EXCEPT !.pow_sum = pow_sum,
                                             !.count = count,
                                             !.var = RDivInt(pow_sum, count)]]
        ELSE s

\* a plausible slip: the raw read tests only in_s.empty(), not valid
var_consume_ungated(s) ==
    LET N    == s.cfg.N
        SIMD == s.cfg.SIMD
    IN  IF s.stage1_s # <<>>
        THEN LET in      == Head(s.stage1_s)
                 pow_res == [i \in 1..SIMD |->
                               LET dlt == RSub(in[i], s.vst.mean)
                               IN  RMul(dlt, dlt)]
                 pow_sum == RAdd(s.vst.pow_sum, reduce(pow_res, SIMD))
                 count   == ApUint(clog2(N), s.vst.count + SIMD)
             IN  [s EXCEPT !.stage1_s = Tail(@),
                           !.stage2_s = Append(@, in),
                           !.vst = [@ EXCEPT !.pow_sum = pow_sum,
                                             !.count = count,
                                             !.var = RDivInt(pow_sum, count)]]
        ELSE s

\* var_stage, "if (valid && !in_s.empty())": forward one vector, accumulate
var_consume(s) ==
    LET N    == s.cfg.N
        SIMD == s.cfg.SIMD
    IN  IF s.vst.valid /\ s.stage1_s # <<>>
        THEN LET in      == Head(s.stage1_s)
                 pow_res == [i \in 1..SIMD |->
                               LET dlt == RSub(in[i], s.vst.mean)
                               IN  RMul(dlt, dlt)]
                 pow_sum == RAdd(s.vst.pow_sum, reduce(pow_res, SIMD))
                 count   == ApUint(clog2(N), s.vst.count + SIMD)
             IN  [s EXCEPT !.stage1_s = Tail(@),
                           !.stage2_s = Append(@, in),
                           !.vst = [@ EXCEPT !.pow_sum = pow_sum,
                                             !.count = count,
                                             !.var = RDivInt(pow_sum, count)]]
        ELSE s

\* a plausible slip: a waiting mean is latched even while one is in use
var_latch_unguarded(s) ==
    IF s.mean_s # <<>>
    THEN [s EXCEPT !.mean_s = Tail(@),
                   !.vst = [@ EXCEPT !.mean = Head(s.mean_s), !.valid = TRUE]]
    ELSE s

\* var_stage, "if (!mean_s.empty() && !valid)": latch the next mean
var_latch(s) ==
    IF s.mean_s # <<>> /\ ~s.vst.valid
    THEN [s EXCEPT !.mean_s = Tail(@),
                   !.vst = [@ EXCEPT !.mean = Head(s.mean_s), !.valid = TRUE]]
    ELSE s

\* a plausible slip: the latch is placed before the raw read, so that one
\* activation latches and reads
var_stage_latch_first(s) ==
    IF s.vst.count = s.cfg.N
    THEN var_reset(s)
    ELSE var_consume(var_latch(s))

var_stage(s) ==
    IF s.vst.count = s.cfg.N
    THEN var_reset(s)
    ELSE var_latch(var_consume(s))

\* out[i] = (in[i] - vm.mean) / hls::sqrt(vm.var + epsilon), kept symbolic
LnOut(in, vm) == [x |-> in, mean |-> vm.mean, var |-> vm.var]

\* a plausible slip: the applier counts one vector too many
WindowLimitOffByOne(c) == c.N \div c.SIMD + 1

\* the window length an applier counts to: N/SIMD
WindowLimit(c) == c.N \div c.SIMD

\* a plausible slip: the reset clears count and leaves valid set
inv_reset_keeps_valid(s) == [s EXCEPT !.ist = [@ EXCEPT !.count = 0]]

\* inv_sqrt_stage (both variants), "if (count == (N/SIMD))": reset, return
inv_reset(s) == [s EXCEPT !.ist = [@ EXCEPT !.count = 0, !.valid = FALSE]]

\* a plausible slip: count += SIMD as in the two stages before
inv_count_by_simd(s) ==
    ApUint(clog2(s.cfg.N \div s.cfg.SIMD) + 1, s.ist.count + s.cfg.SIMD)

\* count++ on ap_uint<clog2(N/SIMD)+1>
inv_count(s) == ApUint(clog2(s.cfg.N \div s.cfg.SIMD) + 1, s.ist.count + 1)

\* a plausible slip: the raw vector is read before valid is tested
inv_consume_ungated(s) ==
    IF s.stage2_s # <<>>
    THEN IF s.ist.valid
         THEN [s EXCEPT !.stage2_s = Tail(@),
                        !.dst = Append(@, LnOut(Head(s.stage2_s), s.ist.vm)),
                        !.ist = [@ EXCEPT !.count = inv_count(s)]]
         ELSE [s EXCEPT !.stage2_s = Tail(@)]
    ELSE s

\* inv_sqrt_stage, "if (valid && !in_s.empty())": normalise one vector
inv_consume(s) ==
    IF s.ist.valid /\ s.stage2_s # <<>>
    THEN [s EXCEPT !.stage2_s = Tail(@),
                   !.dst = Append(@, LnOut(Head(s.stage2_s), s.ist.vm)),
                   !.ist = [@ EXCEPT !.count = inv_count(s)]]
    ELSE s

\* inv_sqrt_stage, "if (!varmean_s.empty() && !valid)": latch {mean, var}
inv_latch(s) ==
    IF s.varmean_s # <<>> /\ ~s.ist.valid
    THEN [s EXCEPT !.varmean_s = Tail(@),
                   !.ist = [@ EXCEPT !.vm = Head(s.varmean_s), !.valid = TRUE]]
    ELSE s

inv_sqrt_stage(s) ==
    IF s.ist.count = WindowLimit(s.cfg)
    THEN inv_reset(s)
    ELSE inv_latch(inv_consume(s))

layernorm_pipeline(s) == inv_sqrt_stage(var_stage(mean_stage(s)))

----------------------------------------------------------------------------
\* rmsnorm.hpp

square_mean_stage(s) ==
    IF s.src # <<>>
    THEN AccStep(s, [i \in 1..s.cfg.SIMD |->
                       ToTO(Head(s.src)[i] * Head(s.src)[i])])
    ELSE s

\* out[i] = in[i] / hls::sqrt(sqm + epsilon), kept symbolic
RmsOut(in, sqm) == [x |-> in, sqm |-> sqm]

\* a plausible slip: count++ sits outside the test of in_s.empty()
rms_inv_consume_counts_idle(s) ==
    IF s.ist.valid
    THEN IF s.stage1_s # <<>>
         THEN [s EXCEPT !.stage1_s = Tail(@),
                        !.dst = Append(@, RmsOut(Head(s.stage1_s), s.ist.sqm)),
                        !.ist = [@ EXCEPT !.count = inv_count(s)]]
         ELSE [s EXCEPT !.ist = [@ EXCEPT !.count = inv_count(s)]]
    ELSE s

\* rmsnorm inv_sqrt_stage, "if (valid && !in_s.empty())"
rms_inv_consume(s) ==
    IF s.ist.valid /\ s.stage1_s # <<>>
    THEN [s EXCEPT !.stage1_s = Tail(@),
                   !.dst = Append(@, RmsOut(Head(s.stage1_s), s.ist.sqm)),
                   !.ist = [@ EXCEPT !.count = inv_count(s)]]
    ELSE s

\* rmsnorm inv_sqrt_stage, "if (!mean_s.empty() && !valid)"
rms_inv_latch(s) ==
    IF s.mean_s # <<>> /\ ~s.ist.valid
    THEN [s EXCEPT !.mean_s = Tail(@),
                   !.ist = [@ EXCEPT !.sqm = Head(s.mean_s), !.valid = TRUE]]
    ELSE s

rms_inv_sqrt_stage(s) ==
    IF s.ist.count = WindowLimit(s.cfg)
    THEN inv_reset(s)
    ELSE rms_inv_latch(rms_inv_consume(s))

rmsnorm_pipeline(s) == rms_inv_sqrt_stage(square_mean_stage(s))

----------------------------------------------------------------------------
\* Initial state: statics as initialised, all streams empty

Shape(m, n, simd) ==
    [mode |-> m, N |-> n, SIMD |-> simd, rounds |-> 0, data |-> "free"]

\* template instantiations explored with free input and free scheduling
Configs ==
    {Shape(m, nl[1], nl[2]) :
        m \in {"layernorm", "rmsnorm"},
        nl \in {<<3, 1>>, <<3, 3>>, <<6, 3>>, <<4, 2>>}}

InitStatics ==
    /\ acc = [count |-> 0, sum |-> Zero, mean |-> Zero]
    /\ vst = [count |-> 0, pow_sum |-> Zero, var |-> Zero, mean |-> Zero,
              valid |-> FALSE]
    /\ ist = [count |-> 0, valid |-> FALSE,
              vm |-> [mean |-> Zero, var |-> Zero], sqm |-> Zero]

InitStreams ==
    /\ dst = <<>>
    /\ stage1_s = <<>>
    /\ mean_s = <<>>
    /\ stage2_s = <<>>
    /\ varmean_s = <<>>
    /\ consumed = <<>>
    /\ raws = <<>>
    /\ stats = <<>>
    /\ calls = 0
    /\ srcB = <<>>
    /\ dstB = <<>>

Init ==
    /\ cfg \in Configs
    /\ src = <<>>
    /\ InitStatics
    /\ InitStreams

----------------------------------------------------------------------------
\* Actions: the environment writes src; each stage is activated on its own

\* input vectors as the testbenches build them, t[j] = ref_val + j, from a
\* free first value
InVecs(SIMD) == {[j \in 1..SIMD |-> v + (j - 1)] : v \in 0..MaxVal}

SrcWrite ==
    /\ Len(src) < MaxSrc
    /\ Len(consumed) + Len(src) < MaxVecs
    /\ \E v \in InVecs(cfg.SIMD) : src' = Append(src, v)
    /\ UNCHANGED <<cfg, dst, stage1_s, mean_s, stage2_s, varmean_s,
                   acc, vst, ist, consumed, raws, stats, calls, srcB, dstB>>

MeanStage == cfg.mode = "layernorm" /\ \E t \in {mean_stage(St)} : Commit(t)

VarStage == cfg.mode = "layernorm" /\ \E t \in {var_stage(St)} : Commit(t)

InvSqrtStage == cfg.mode = "layernorm" /\ \E t \in {inv_sqrt_stage(St)} : Commit(t)

SquareMeanStage == cfg.mode = "rmsnorm" /\ \E t \in {square_mean_stage(St)} : Commit(t)

RmsInvSqrtStage == cfg.mode = "rmsnorm" /\ \E t \in {rms_inv_sqrt_stage(St)} : Commit(t)

Next ==
    \/ SrcWrite
    \/ MeanStage
    \/ VarStage
    \/ InvSqrtStage
    \/ SquareMeanStage
    \/ RmsInvSqrtStage

Spec == Init /\ [][Next]_vars

----------------------------------------------------------------------------
\* Instantiations with N not a multiple of SIMD.  The templates carry no
\* static_assert or run-time test of N % SIMD, so such an instantiation
\* compiles and runs like any other.

Misconfigs ==
    {Shape(m, nl[1], nl[2]) :
        m \in {"layernorm", "rmsnorm"},
        nl \in {<<3, 2>>, <<5, 2>>}}

InitMisconfigured ==
    /\ cfg \in Misconfigs
    /\ src = <<>>
    /\ InitStatics
    /\ InitStreams

SpecMisconfigured == InitMisconfigured /\ [][Next]_vars

----------------------------------------------------------------------------
\* Fair scheduling: a stage that can make a step is eventually activated, and
\* the source does not stop in the middle of a window.

\* the source writes a window only if it can write all of it
SrcWriteWhole ==
    /\ SrcWrite
    /\ (Len(consumed) + Len(src)) % VPW(cfg) = 0 =>
           Len(consumed) + Len(src) + VPW(cfg) <= MaxVecs

CompleteWindow ==
    /\ (Len(consumed) + Len(src)) % VPW(cfg) # 0
    /\ SrcWrite

NextLive ==
    \/ SrcWriteWhole
    \/ MeanStage
    \/ VarStage
    \/ InvSqrtStage
    \/ SquareMeanStage
    \/ RmsInvSqrtStage

Fairness ==
    /\ WF_vars(MeanStage)
    /\ WF_vars(VarStage)
    /\ WF_vars(InvSqrtStage)
    /\ WF_vars(SquareMeanStage)
    /\ WF_vars(RmsInvSqrtStage)
    /\ WF_vars(CompleteWindow)

SpecLive == Init /\ [][NextLive]_vars /\ Fairness

----------------------------------------------------------------------------
\* The streams at their declared depths ("#pragma HLS stream ... depth="):
\* N vectors for stage1_s and stage2_s, 2 entries for mean_s and varmean_s.
\* A stage whose activation would write to a full stream is blocked: it
\* takes no step until there is room.

StatDepth == 2

Fits(s) ==
    /\ Len(s.stage1_s) <= s.cfg.N
    /\ Len(s.mean_s) <= StatDepth
    /\ Len(s.stage2_s) <= s.cfg.N
    /\ Len(s.varmean_s) <= StatDepth

MeanStageBounded ==
    cfg.mode = "layernorm" /\ \E t \in {mean_stage(St)} : Fits(t) /\ Commit(t)

VarStageBounded ==
    cfg.mode = "layernorm" /\ \E t \in {var_stage(St)} : Fits(t) /\ Commit(t)

InvSqrtStageBounded ==
    cfg.mode = "layernorm" /\ \E t \in {inv_sqrt_stage(St)} : Fits(t) /\ Commit(t)

SquareMeanStageBounded ==
    cfg.mode = "rmsnorm" /\ \E t \in {square_mean_stage(St)} : Fits(t) /\ Commit(t)

RmsInvSqrtStageBounded ==
    cfg.mode = "rmsnorm" /\ \E t \in {rms_inv_sqrt_stage(St)} : Fits(t) /\ Commit(t)

NextBounded ==
    \/ SrcWriteWhole
    \/ MeanStageBounded
    \/ VarStageBounded
    \/ InvSqrtStageBounded
    \/ SquareMeanStageBounded
    \/ RmsInvSqrtStageBounded

FairnessBounded ==
    /\ WF_vars(MeanStageBounded)
    /\ WF_vars(VarStageBounded)
    /\ WF_vars(InvSqrtStageBounded)
    /\ WF_vars(SquareMeanStageBounded)
    /\ WF_vars(RmsInvSqrtStageBounded)
    /\ WF_vars(CompleteWindow)

SpecBounded == Init /\ [][NextBounded]_vars /\ FairnessBounded

----------------------------------------------------------------------------
\* One tick = one call of the pipeline function: every stage is activated
\* once, in program order.  Input may arrive between two calls.

\* number of vectors the environment writes to src under SpecTick
MaxTickVecs == 7

Arrive ==
    /\ Len(src) < MaxSrc
    /\ Len(consumed) + Len(src) < MaxTickVecs
    /\ \E v \in InVecs(cfg.SIMD) : src' = Append(src, v)
    /\ UNCHANGED <<cfg, dst, stage1_s, mean_s, stage2_s, varmean_s,
                   acc, vst, ist, consumed, raws, stats, calls, srcB, dstB>>

TickLayernorm == cfg.mode = "layernorm" /\ \E t \in {layernorm_pipeline(St)} : Commit(t)

TickRmsnorm == cfg.mode = "rmsnorm" /\ \E t \in {rmsnorm_pipeline(St)} : Commit(t)

NextTick ==
    \/ Arrive
    \/ TickLayernorm
    \/ TickRmsnorm

SpecTick == Init /\ [][NextTick]_vars

----------------------------------------------------------------------------
\* Two callers of one instantiation.  The statics of the stages and the four
\* static streams of the pipeline function belong to the instantiation
\* <TI, TO, N, SIMD>, so a second caller with streams of its own runs on the
\* same statics and the same internal queues; only src and dst are the
\* caller's.

\* number of vectors the two callers write together
MaxSharedVecs == 4

\* the state as the second caller's call sees it
StB == [St EXCEPT !.src = srcB, !.dst = dstB]

CommitB(s) ==
    /\ srcB' = s.src
    /\ dstB' = s.dst
    /\ cfg' = s.cfg
    /\ stage1_s' = s.stage1_s
    /\ mean_s' = s.mean_s
    /\ stage2_s' = s.stage2_s
    /\ varmean_s' = s.varmean_s
    /\ acc' = s.acc
    /\ vst' = s.vst
    /\ ist' = s.ist
    /\ consumed' = s.consumed
    /\ raws' = s.raws
    /\ stats' = s.stats
    /\ calls' = s.calls
    /\ UNCHANGED <<src, dst>>

\* the one vector the first caller keeps writing, and the second caller's
OwnVecA == [j \in 1..cfg.SIMD |-> j - 1]

OwnVecB == [j \in 1..cfg.SIMD |-> MaxVal + (j - 1)]

WriteA ==
    /\ Len(src) < MaxSrc
    /\ Len(consumed) + Len(src) + Len(srcB) < MaxSharedVecs
    /\ src' = Append(src, OwnVecA)
    /\ UNCHANGED <<cfg, dst, stage1_s, mean_s, stage2_s, varmean_s,
                   acc, vst, ist, consumed, raws, stats, calls, srcB, dstB>>

WriteB ==
    /\ Len(srcB) < MaxSrc
    /\ Len(consumed) + Len(src) + Len(srcB) < MaxSharedVecs
    /\ srcB' = Append(srcB, OwnVecB)
    /\ UNCHANGED <<cfg, src, dst, stage1_s, mean_s, stage2_s, varmean_s,
                   acc, vst, ist, consumed, raws, stats, calls, dstB>>

TickLayernormB == cfg.mode = "layernorm" /\ \E t \in {layernorm_pipeline(StB)} : CommitB(t)

TickRmsnormB == cfg.mode = "rmsnorm" /\ \E t \in {rmsnorm_pipeline(StB)} : CommitB(t)

NextShared ==
    \/ WriteA
    \/ WriteB
    \/ TickLayernorm
    \/ TickRmsnorm
    \/ TickLayernormB
    \/ TickRmsnormB

SpecShared == Init /\ [][NextShared]_vars

----------------------------------------------------------------------------
\* The testbenches: test() preloads ROUNDS windows on src and then calls the
\* top function 3*(ROUNDS*W) times.

ROUNDS == 3

LayernormW == 384

LayernormSIMD == 4

RmsnormW == 128

RmsnormSIMD == 32

\* value kept by an ap_int<4>
ApInt4(x) == ((x + 8) % 16) - 8

\* the vector written at offset i of a window (i a multiple of SIMD)
TBVec(c, i) ==
    [j \in 1..c.SIMD |->
        CASE c.data = "tb" /\ c.mode = "layernorm" -> i + (j - 1)
          [] c.data = "tb" /\ c.mode = "rmsnorm" -> ApInt4(i + (j - 1))
          [] OTHER -> i + j]

TBSrc(c) ==
    [k \in 1..(c.rounds * VPW(c)) |-> TBVec(c, ((k - 1) % VPW(c)) * c.SIMD)]

TBShapes ==
    { [mode |-> "layernorm", N |-> LayernormW, SIMD |-> LayernormSIMD,
       rounds |-> ROUNDS, data |-> "tb"],
      [mode |-> "rmsnorm", N |-> RmsnormW, SIMD |-> RmsnormSIMD,
       rounds |-> ROUNDS, data |-> "tb"],
      \* the two worked end-to-end scenarios: elements 1..N, one window
      [mode |-> "layernorm", N |-> 8, SIMD |-> 4, rounds |-> 1,
       data |-> "scenario"],
      [mode |-> "rmsnorm", N |-> 4, SIMD |-> 4, rounds |-> 1,
       data |-> "scenario"],
      \* sustained input: several short windows, all queued before the calls
      [mode |-> "layernorm", N |-> 6, SIMD |-> 3, rounds |-> 4,
       data |-> "sustained"],
      [mode |-> "rmsnorm", N |-> 6, SIMD |-> 3, rounds |-> 4,
       data |-> "sustained"] }

InitTB ==
    /\ cfg \in TBShapes
    /\ src = TBSrc(cfg)
    /\ InitStatics
    /\ InitStreams

TBCalls(c) == 3 * (c.rounds * c.N)

TBDone == calls = TBCalls(cfg)

CallLayernorm ==
    /\ cfg.mode = "layernorm"
    /\ calls < TBCalls(cfg)
    /\ \E t \in {layernorm_pipeline(St)} : Commit([t EXCEPT !.calls = @ + 1])

CallRmsnorm ==
    /\ cfg.mode = "rmsnorm"
    /\ calls < TBCalls(cfg)
    /\ \E t \in {rmsnorm_pipeline(St)} : Commit([t EXCEPT !.calls = @ + 1])

NextTB ==
    \/ CallLayernorm
    \/ CallRmsnorm

SpecTB == InitTB /\ [][NextTB]_vars

----------------------------------------------------------------------------
\* Reference computations of the testbenches

RECURSIVE SerialSum(_, _)
SerialSum(array, size) ==
    IF size = 0 THEN Zero ELSE RAdd(SerialSum(array, size - 1), array[size])

\* float mean(float* array, int size)
ref_mean(array, size) == RDivInt(SerialSum(array, size), size)

\* float variance(float* array, int size, float mean)
ref_variance(array, size, m) ==
    RDivInt(SerialSum([i \in 1..size |->
                         RMul(RSub(array[i], m), RSub(array[i], m))], size),
            size)

\* float sq_mean(float* array, int size)
ref_sq_mean(array, size) ==
    RDivInt(SerialSum([i \in 1..size |-> RMul(array[i], array[i])], size), size)

\* ref_layernorm: the output for the vector x of the window held in array
ref_layernorm(array, length, x) ==
    CHOOSE r \in {LnOut(x, [mean |-> m, var |-> ref_variance(array, length, m)]) :
                     m \in {ref_mean(array, length)}} : TRUE

\* ref_rmsnorm: the output for the vector x of the window held in array
ref_rmsnorm(array, length, x) == RmsOut(x, ref_sq_mean(array, length))

\* the N scalars of the j-th window read from src
WinArr(j) ==
    [e \in 1..cfg.N |->
        ToTO(consumed[(j - 1) * VPW(cfg) + ((e - 1) \div cfg.SIMD) + 1]
                     [((e - 1) % cfg.SIMD) + 1])]

\* the window the k-th vector belongs to
WinOf(k) == ((k - 1) \div VPW(cfg)) + 1

----------------------------------------------------------------------------
\* C1 (order preservation): the k-th vector written to dst carries the
\* converted elements of the k-th vector read from src, lane by lane; dst
\* never holds more vectors than were read, so nothing is duplicated,
\* skipped or reordered.
C1_OrderPreserved ==
    /\ Len(dst) <= Len(consumed)
    /\ \A k \in 1..Len(dst) :
         dst[k].x = [i \in 1..cfg.SIMD |-> ToTO(consumed[k][i])]

\* two windows of layernorm came out, with vectors that differ
C1_Witness ==
    /\ cfg.mode = "layernorm"
    /\ Len(dst) >= 2 * VPW(cfg)
    /\ dst[1].x # dst[Len(dst)].x

\* C2 (alignment): every output vector of window j was normalised with the
\* statistic of the N elements of window j: mean and variance in layernorm,
\* mean of squares in rmsnorm.
C2_Aligned ==
    \A j \in 1..WinOf(Len(dst)) :
      /\ j * VPW(cfg) <= Len(consumed)
      /\ \E w \in {WinArr(j)} :
           IF cfg.mode = "layernorm"
           THEN \E m \in {ref_mean(w, cfg.N)} :
                \E v \in {ref_variance(w, cfg.N, m)} :
                  \A k \in 1..Len(dst) :
                    WinOf(k) = j => dst[k].mean = m /\ dst[k].var = v
           ELSE \E q \in {ref_sq_mean(w, cfg.N)} :
                  \A k \in 1..Len(dst) : WinOf(k) = j => dst[k].sqm = q

\* two windows with different means came out of layernorm
C2_Witness ==
    /\ cfg.mode = "layernorm"
    /\ Len(dst) >= 2 * VPW(cfg)
    /\ dst[1].mean # dst[VPW(cfg) + 1].mean
    /\ dst[1].var # Zero

\* C5 (accumulator output counts): after m vectors were read from src, the
\* accumulator stage has written the same m vectors, converted, to its raw
\* queue and floor(m / (N/SIMD)) statistics to its statistic queue.
C5_AccCounts ==
    /\ Len(raws) = Len(consumed)
    /\ \A k \in 1..Len(raws) :
         raws[k] = [i \in 1..cfg.SIMD |-> ToTO(consumed[k][i])]
    /\ Len(stats) = Len(consumed) \div VPW(cfg)

\* C6 (statistic value): the j-th statistic written is the sum of the N
\* elements (layernorm) or of their squares (rmsnorm) of window j, over N.
C6_StatValue ==
    \A j \in 1..Len(stats) :
      /\ j * VPW(cfg) <= Len(consumed)
      /\ \E w \in {WinArr(j)} :
           stats[j] = IF cfg.mode = "layernorm"
                      THEN ref_mean(w, cfg.N)
                      ELSE ref_sq_mean(w, cfg.N)

\* rmsnorm wrote the statistics of two windows, and they differ
C6_Witness ==
    /\ cfg.mode = "rmsnorm"
    /\ Len(stats) = 2
    /\ stats[1] # stats[2]

\* C3 (eventual 1:1 output): under fair activation of all stages, the k-th
\* vector read from src is eventually followed by a k-th vector on dst.
C3_EventualOutput ==
    \A k \in 1..MaxVecs :
        (Len(consumed) >= k) ~> (Len(dst) >= k)

\* C4 (bounded completion): after the 3*(ROUNDS*W) calls of the testbench,
\* dst holds exactly ROUNDS*W scalars.
C4_TBComplete ==
    (cfg.data = "tb" /\ TBDone) => Len(dst) * cfg.SIMD = cfg.rounds * cfg.N

\* C7 (mean/variance scenario): N = 8, SIMD = 4, input 1..8: two output
\* vectors, both normalised with mean 9/2 and variance 21/4.
C7_LayernormScenario ==
    (cfg.data = "scenario" /\ cfg.mode = "layernorm" /\ TBDone) =>
        /\ Len(dst) = 2
        /\ \A k \in 1..Len(dst) : dst[k].mean = <<9, 2>> /\ dst[k].var = <<21, 4>>

\* C8 (RMS scenario): N = 4, SIMD = 4, input 1..4: one output vector,
\* normalised with mean of squares 15/2.
C8_RmsnormScenario ==
    (cfg.data = "scenario" /\ cfg.mode = "rmsnorm" /\ TBDone) =>
        /\ Len(dst) = 1
        /\ \A k \in 1..Len(dst) : dst[k].sqm = <<15, 2>>

\* no stage can make a step and nothing is left in any stream
Idle ==
    IF cfg.mode = "layernorm"
    THEN mean_stage(St) = St /\ var_stage(St) = St /\ inv_sqrt_stage(St) = St
    ELSE square_mean_stage(St) = St /\ rms_inv_sqrt_stage(St) = St

Drained ==
    /\ src = <<>>
    /\ stage1_s = <<>>
    /\ mean_s = <<>>
    /\ stage2_s = <<>>
    /\ varmean_s = <<>>
    /\ Idle

\* the vectors of the j-th window on dst
OutWin(j) == SubSeq(dst, (j - 1) * VPW(cfg) + 1, j * VPW(cfg))

\* the vectors of the j-th window read from src
InWin(j) == SubSeq(consumed, (j - 1) * VPW(cfg) + 1, j * VPW(cfg))

\* C9 (idempotent reset): once the pipeline has drained, the counts and
\* running sums of every stage are zero and no statistic is held, as in the
\* initial state; and a window that repeats an earlier window's input has
\* produced the same output vectors.
C9_ResetAfterDrain ==
    Drained =>
        /\ acc.count = 0 /\ acc.sum = Zero
        /\ vst.count = 0 /\ vst.pow_sum = Zero /\ ~vst.valid
        /\ ist.count = 0 /\ ~ist.valid
        /\ \A j1, j2 \in 1..(Len(dst) \div VPW(cfg)) :
             InWin(j1) = InWin(j2) => OutWin(j1) = OutWin(j2)

\* layernorm drained after the same window was fed twice, with a non-zero
\* mean and variance
C9_Witness ==
    /\ Drained
    /\ cfg.mode = "layernorm"
    /\ Len(dst) >= 2 * VPW(cfg)
    /\ InWin(1) = InWin(2)
    /\ dst[1].mean # Zero
    /\ dst[1].var # Zero

\* C10 (raw buffers never overflow): with every stage activated once per
\* tick, stage1_s and stage2_s never hold more than their depth of N vectors.
C10_RawWithinDepth ==
    /\ Len(stage1_s) <= cfg.N
    /\ Len(stage2_s) <= cfg.N

\* C11 (statistic queues within depth): with every stage activated once per
\* tick, mean_s and varmean_s never hold more than their depth of 2 entries.
C11_StatWithinDepth ==
    /\ Len(mean_s) <= 2
    /\ Len(varmean_s) <= 2

\* the vector the testbench's reference expects at position k of dst, a
\* function of the input sequence alone
Expected(k) ==
    LET x == [i \in 1..cfg.SIMD |-> ToTO(consumed[k][i])]
    IN  IF cfg.mode = "layernorm"
        THEN ref_layernorm(WinArr(WinOf(k)), cfg.N, x)
        ELSE ref_rmsnorm(WinArr(WinOf(k)), cfg.N, x)

\* C12 (independence from cadence and scheduling): under every arrival
\* timing and every interleaving of stage activations, dst is a prefix of
\* the one sequence determined by the input, and once the pipeline has
\* drained a vector has been written for every vector read.
C12_ScheduleIndependent ==
    /\ Len(dst) <= Len(consumed)
    /\ WinOf(Len(dst)) * VPW(cfg) <= Len(consumed)
    /\ \A k \in 1..Len(dst) : dst[k] = Expected(k)
    /\ Drained => Len(dst) = Len(consumed)

\* the input stalled in the middle of a window of layernorm: mean_stage has
\* read part of the window and nothing more is queued, while the earlier
\* window already came out completely
C12_Witness ==
    /\ cfg.mode = "layernorm"
    /\ src = <<>>
    /\ acc.count > 0
    /\ Len(dst) >= VPW(cfg)
    /\ Len(dst) < Len(consumed)
    /\ dst[1].var # Zero

\* C13 (one vector per tick): with a vector waiting on src at every call,
\* once the first output vector has been written every further call of the
\* pipeline writes one more vector to dst.
C13_OnePerTick ==
    [][(src # <<>> /\ Len(dst) > 0) => Len(dst') = Len(dst) + 1]_vars

\* C14 (configuration error): in an instantiation whose N is not a multiple
\* of SIMD no stage ever reads an input vector or changes its state.
C14_MisconfigRejected ==
    cfg.N % cfg.SIMD # 0 =>
        /\ consumed = <<>>
        /\ stage1_s = <<>>
        /\ acc = [count |-> 0, sum |-> Zero, mean |-> Zero]

\* the current state with var_stage Active at count c and its raw queue dry
VarActiveStarved(c) ==
    [St EXCEPT !.vst = [@ EXCEPT !.valid = TRUE, !.count = c],
               !.stage1_s = <<>>]

\* the current state with inv_sqrt_stage Active at count c and its raw queue
\* dry (stage2_s in layernorm, stage1_s in rmsnorm)
InvActiveStarved(c) ==
    IF cfg.mode = "layernorm"
    THEN [St EXCEPT !.ist = [@ EXCEPT !.valid = TRUE, !.count = c],
                    !.stage2_s = <<>>]
    ELSE [St EXCEPT !.ist = [@ EXCEPT !.valid = TRUE, !.count = c],
                    !.stage1_s = <<>>]

\* C15 (starvation is a no-op): an accumulator activated with src empty, an
\* applier activated while awaiting a statistic with its statistic queue
\* empty, and an applier activated while Active (valid, window not complete)
\* with its raw queue empty each leave every static and every queue as it
\* was.
C15_StarvedNoOp ==
    IF cfg.mode = "layernorm"
    THEN /\ src = <<>> => mean_stage(St) = St
         /\ (~vst.valid /\ mean_s = <<>>) => var_stage(St) = St
         /\ (~ist.valid /\ varmean_s = <<>>) => inv_sqrt_stage(St) = St
         /\ \A c \in 0..(cfg.N - 1) :
              \E t \in {VarActiveStarved(c)} : var_stage(t) = t
         /\ \A c \in 0..(WindowLimit(cfg) - 1) :
              \E t \in {InvActiveStarved(c)} : inv_sqrt_stage(t) = t
    ELSE /\ src = <<>> => square_mean_stage(St) = St
         /\ (~ist.valid /\ mean_s = <<>>) => rms_inv_sqrt_stage(St) = St
         /\ \A c \in 0..(WindowLimit(cfg) - 1) :
              \E t \in {InvActiveStarved(c)} : rms_inv_sqrt_stage(t) = t

\* layernorm with every kind of starvation at once: mean_stage in the middle
\* of a window with src empty, var_stage awaiting a mean with raw vectors
\* already queued, and inv_sqrt_stage awaiting {mean, var} after a window
\* came out
C15_Witness ==
    /\ cfg.mode = "layernorm"
    /\ src = <<>>
    /\ acc.count > 0
    /\ ~vst.valid
    /\ mean_s = <<>>
    /\ stage1_s # <<>>
    /\ ~ist.valid
    /\ varmean_s = <<>>
    /\ Len(dst) >= VPW(cfg)

\* C16 (statistic gate): an activation of var_stage or of inv_sqrt_stage
\* (either variant) that starts with valid = false takes no vector from the
\* stage's raw input queue: stage1_s for var_stage and for the inv_sqrt_stage
\* of rmsnorm, stage2_s for the inv_sqrt_stage of layernorm.
C16_StatisticGate ==
    [][IF cfg.mode = "layernorm"
       THEN /\ ~vst.valid => Len(stage1_s') >= Len(stage1_s)
            /\ ~ist.valid => Len(stage2_s') >= Len(stage2_s) /\ dst' = dst
       ELSE ~ist.valid => Len(stage1_s') >= Len(stage1_s) /\ dst' = dst]_vars

\* var_stage has finished a window and not yet latched the next mean, while
\* the raw vectors and the mean of the next window are already queued
C16_Witness ==
    /\ cfg.mode = "layernorm"
    /\ ~vst.valid
    /\ vst.count = 0
    /\ Len(stage2_s) + Len(dst) >= VPW(cfg)
    /\ Len(stage1_s) >= VPW(cfg)
    /\ mean_s # <<>>

\* what the queues tell about var_stage: means it has latched, raw vectors
\* it has read, windows it has closed by writing {mean, var}
VarLatched == Len(stats) - Len(mean_s)

VarRead == Len(raws) - Len(stage1_s)

VarClosed == VarLatched - (IF vst.valid THEN 1 ELSE 0)

\* the same for inv_sqrt_stage: statistics latched, raw vectors read
InvLatched ==
    IF cfg.mode = "layernorm"
    THEN VarClosed - Len(varmean_s)
    ELSE Len(stats) - Len(mean_s)

InvRead ==
    IF cfg.mode = "layernorm"
    THEN VarRead - Len(stage2_s)
    ELSE Len(raws) - Len(stage1_s)

\* C17 (exact window length per statistic): in every state an applier has
\* read N/SIMD raw vectors for every statistic it latched before the one it
\* holds, and count vectors (at most N/SIMD) for the one it holds; while it
\* holds none, count is 0.  A statistic is popped only by a stage whose
\* valid is false and whose count is 0.
C17_ExactWindow ==
    /\ [](/\ ~ist.valid => ist.count = 0
          /\ ist.count <= WindowLimit(cfg)
          /\ InvRead = (InvLatched - (IF ist.valid THEN 1 ELSE 0))
                          * WindowLimit(cfg) + ist.count
          /\ InvRead = Len(dst)
          /\ cfg.mode = "layernorm" =>
               /\ ~vst.valid => vst.count = 0
               /\ vst.count <= cfg.N
               /\ VarRead * cfg.SIMD = VarClosed * cfg.N + vst.count)
    /\ [][IF cfg.mode = "layernorm"
          THEN /\ Len(mean_s') < Len(mean_s) => ~vst.valid /\ vst.count = 0
               /\ Len(varmean_s') < Len(varmean_s) =>
                      ~ist.valid /\ ist.count = 0
          ELSE Len(mean_s') < Len(mean_s) => ~ist.valid /\ ist.count = 0]_vars

\* layernorm with two vectors or more per window: inv_sqrt_stage has
\* latched its second statistic and read the first vector under it
C17_Witness ==
    /\ cfg.mode = "layernorm"
    /\ VPW(cfg) >= 2
    /\ ist.valid
    /\ ist.count = 1
    /\ InvLatched = 2
    /\ Len(dst) = VPW(cfg) + 1

\* C18 (accumulator reset at the window boundary): after every activation
\* the count of mean_stage / square_mean_stage and of var_stage is below N,
\* and whenever a whole number of windows has been read the accumulator's
\* count and sum are back at zero.
C18_ResetAtBoundary ==
    /\ acc.count < cfg.N
    /\ vst.count < cfg.N
    /\ Len(consumed) % VPW(cfg) = 0 => acc.count = 0 /\ acc.sum = Zero

\* the {mean, var} pair the reference computes for the k-th window read
RefPair(k) ==
    CHOOSE r \in {[mean |-> p[2], var |-> ref_variance(p[1], cfg.N, p[2])] :
                    p \in {<<w, ref_mean(w, cfg.N)>> : w \in {WinArr(k)}}} : TRUE

\* C19 (second statistic of var_stage): var_stage gives up its mean exactly
\* in the steps in which it appends one pair to varmean_s.  Such a step
\* starts with all N elements of the window read and none of the next,
\* latches nothing, and appends the mean latched for that window together
\* with the variance of that window's N elements around it.  A mean is
\* latched only with the previous window closed and pow_sum cleared.
C19_SecondStatistic ==
    [][cfg.mode = "layernorm" =>
        /\ (vst.valid /\ ~vst'.valid) <=> Len(varmean_s') > Len(varmean_s)
        /\ Len(varmean_s') > Len(varmean_s) =>
             /\ vst.count = cfg.N
             /\ VarRead = VarLatched * VPW(cfg)
             /\ vst.mean = stats[VarLatched]
             /\ varmean_s' = Append(varmean_s, RefPair(VarLatched))
             /\ mean_s' = mean_s
             /\ stage1_s' = stage1_s
        /\ Len(mean_s') < Len(mean_s) =>
             /\ ~vst.valid
             /\ vst.count = 0
             /\ vst.pow_sum = Zero
             /\ VarRead = VarLatched * VPW(cfg)]_vars

\* var_stage has closed two windows with different pairs, both still queued
C19_Witness ==
    /\ cfg.mode = "layernorm"
    /\ ~vst.valid
    /\ Len(varmean_s) = 2
    /\ varmean_s[1].mean # varmean_s[2].mean
    /\ varmean_s[1].var # Zero

\* the normalisation of a window made of copies of the vector v
OwnOut(v) ==
    LET x == [i \in 1..cfg.SIMD |-> ToTO(v[i])]
        w == [e \in 1..cfg.N |-> ToTO(v[((e - 1) % cfg.SIMD) + 1])]
    IN  IF cfg.mode = "layernorm"
        THEN ref_layernorm(w, cfg.N, x)
        ELSE ref_rmsnorm(w, cfg.N, x)

\* C20 (no state shared between instances): with two callers of the same
\* instantiation, each on its own src and dst and each writing windows of its
\* own vector, every vector on a caller's dst is the normalisation of that
\* caller's own input.
C20_InstancesIsolated ==
    /\ \A k \in 1..Len(dst) : dst[k] = OwnOut(OwnVecA)
    /\ \A k \in 1..Len(dstB) : dstB[k] = OwnOut(OwnVecB)

\* C21 (window counter width): the element counter of the accumulator stage
\* and of var_stage reaches N once per window, so the vectors read are
\* accounted for by the statistics written and the current count, and no
\* mean or variance was ever computed with a divisor of 0.
C21_CounterReachesN ==
    /\ Len(consumed) * cfg.SIMD = Len(stats) * cfg.N + acc.count
    /\ acc.mean[2] # 0
    /\ vst.var[2] # 0

\* C22 (an Active applier never starves): a stage that holds a statistic and
\* has not yet read all N/SIMD vectors of its window finds its raw input
\* queue non-empty.
C22_ActiveNeverStarves ==
    IF cfg.mode = "layernorm"
    THEN /\ (vst.valid /\ vst.count < cfg.N) => stage1_s # <<>>
         /\ (ist.valid /\ ist.count < WindowLimit(cfg)) => stage2_s # <<>>
    ELSE (ist.valid /\ ist.count < WindowLimit(cfg)) => stage1_s # <<>>

\* layernorm: inv_sqrt_stage is in the middle of a window whose remaining
\* vector is the only one queued, while var_stage holds the mean of the next
\* window and has not read from it yet
C22_Witness ==
    /\ cfg.mode = "layernorm"
    /\ ist.valid
    /\ ist.count > 0
    /\ ist.count < WindowLimit(cfg)
    /\ Len(stage2_s) = WindowLimit(cfg) - ist.count
    /\ vst.valid
    /\ vst.count = 0

\* C23 (occupancy conservation): a raw queue holds N/SIMD vectors for every
\* statistic queued beside it, the unread rest of the window whose statistic
\* the consumer holds, and the vectors of the window the producer is still
\* accumulating (its count / SIMD).
C23_OccupancyConserved ==
    IF cfg.mode = "layernorm"
    THEN /\ Len(stage1_s) * cfg.SIMD =
              cfg.N * Len(mean_s)
              + (IF vst.valid THEN cfg.N - vst.count ELSE 0)
              + acc.count
         /\ Len(stage2_s) * cfg.SIMD =
              cfg.N * Len(varmean_s)
              + (IF ist.valid THEN cfg.N - ist.count * cfg.SIMD ELSE 0)
              + vst.count
    ELSE Len(stage1_s) * cfg.SIMD =
              cfg.N * Len(mean_s)
              + (IF ist.valid THEN cfg.N - ist.count * cfg.SIMD ELSE 0)
              + acc.count

\* a stage is stuck if its activation changes nothing or is blocked on a
\* full stream
StageStuck(t) == t = St \/ ~Fits(t)

AllStuck ==
    IF cfg.mode = "layernorm"
    THEN /\ StageStuck(mean_stage(St))
         /\ StageStuck(var_stage(St))
         /\ StageStuck(inv_sqrt_stage(St))
    ELSE /\ StageStuck(square_mean_stage(St))
         /\ StageStuck(rms_inv_sqrt_stage(St))

\* vectors of complete windows read from src
WholeWindowsRead == (Len(consumed) \div VPW(cfg)) * VPW(cfg)

\* C24 (deadlock freedom with bounded queues): with the streams at their
\* declared depths and blocking writes, the pipeline is never in a state
\* where input is pending or a complete window is still in flight while no
\* stage can take a step.
C24_NoDeadlock ==
    (src # <<>> \/ Len(dst) < WholeWindowsRead) => ~AllStuck

\* C25 (applier state invariant): the count of inv_sqrt_stage stays within
\* 0..N/SIMD, which its clog2(N/SIMD)+1 bits can hold, so count++ never
\* wraps; while inv_sqrt_stage holds no statistic its count is 0, and while
\* var_stage holds none its count and pow_sum are 0.
C25_ApplierState ==
    /\ ist.count \in 0..WindowLimit(cfg)
    /\ WindowLimit(cfg) < Pow2(clog2(WindowLimit(cfg)) + 1)
    /\ ist.count < WindowLimit(cfg) => inv_count(St) = ist.count + 1
    /\ ~ist.valid => ist.count = 0
    /\ ~vst.valid => vst.count = 0 /\ vst.pow_sum = Zero

\* layernorm: inv_sqrt_stage stands at the window limit, about to reset,
\* while var_stage has closed the next window and holds no mean
C25_Witness ==
    /\ cfg.mode = "layernorm"
    /\ ist.valid
    /\ ist.count = WindowLimit(cfg)
    /\ ~vst.valid
    /\ varmean_s # <<>>

\* n activations of var_stage in a row
RECURSIVE VarActivations(_, _)
VarActivations(s, n) ==
    IF n = 0 THEN s ELSE var_stage(VarActivations(s, n - 1))

\* n activations of inv_sqrt_stage in a row
RECURSIVE InvActivations(_, _)
InvActivations(s, n) ==
    IF n = 0 THEN s
    ELSE IF s.cfg.mode = "layernorm"
         THEN inv_sqrt_stage(InvActivations(s, n - 1))
         ELSE rms_inv_sqrt_stage(InvActivations(s, n - 1))

\* var_stage awaits a mean, and the mean and a whole window are queued
VarSupplied == ~vst.valid /\ mean_s # <<>> /\ Len(stage1_s) >= VPW(cfg)

\* inv_sqrt_stage awaits a statistic, and it and a whole window are queued
InvSupplied ==
    /\ ~ist.valid
    /\ IF cfg.mode = "layernorm"
       THEN varmean_s # <<>> /\ Len(stage2_s) >= VPW(cfg)
       ELSE mean_s # <<>> /\ Len(stage1_s) >= VPW(cfg)

\* C26 (activation steps are mutually exclusive): a step that pops a
\* statistic reads no raw vector; a step that starts with count at the
\* window limit only resets (var_stage also appends its pair) and reads
\* neither input queue.  Hence a supplied applier is still Active after
\* N/SIMD + 1 activations, with the whole window read, and has closed the
\* window after exactly N/SIMD + 2.
C26_ExclusiveSteps ==
    /\ [][IF cfg.mode = "layernorm"
          THEN /\ Len(mean_s') < Len(mean_s) =>
                    stage1_s' = stage1_s /\ stage2_s' = stage2_s
               /\ (vst.count = cfg.N /\ vst' # vst) =>
                    /\ stage1_s' = stage1_s
                    /\ mean_s' = mean_s
                    /\ stage2_s' = stage2_s
                    /\ Len(varmean_s') = Len(varmean_s) + 1
               /\ Len(varmean_s') < Len(varmean_s) =>
                    stage2_s' = stage2_s /\ dst' = dst
               /\ (ist.count = WindowLimit(cfg) /\ ist' # ist) =>
                    stage2_s' = stage2_s /\ varmean_s' = varmean_s /\ dst' = dst
          ELSE /\ Len(mean_s') < Len(mean_s) =>
                    stage1_s' = stage1_s /\ dst' = dst
               /\ (ist.count = WindowLimit(cfg) /\ ist' # ist) =>
                    stage1_s' = stage1_s /\ mean_s' = mean_s /\ dst' = dst]_vars
    /\ []((cfg.mode = "layernorm" /\ VarSupplied) =>
            \E a \in {VarActivations(St, VPW(cfg) + 1)} :
              /\ a.vst.valid
              /\ a.vst.count = cfg.N
              /\ Len(a.stage1_s) = Len(stage1_s) - VPW(cfg)
              /\ a.varmean_s = varmean_s
              /\ \E b \in {var_stage(a)} :
                   /\ ~b.vst.valid
                   /\ Len(b.varmean_s) = Len(varmean_s) + 1
                   /\ Len(b.mean_s) = Len(mean_s) - 1
                   /\ b.stage1_s = a.stage1_s)
    /\ [](InvSupplied =>
            \E a \in {InvActivations(St, VPW(cfg) + 1)} :
              /\ a.ist.valid
              /\ a.ist.count = WindowLimit(cfg)
              /\ Len(a.dst) = Len(dst) + VPW(cfg)
              /\ \E b \in {InvActivations(a, 1)} :
                   /\ ~b.ist.valid
                   /\ b.ist.count = 0
                   /\ b.dst = a.dst
                   /\ b.stage1_s = a.stage1_s
                   /\ b.stage2_s = a.stage2_s)

\* layernorm: var_stage has closed a window and awaits the next mean, which
\* is queued together with its whole window
C26_Witness ==
    /\ cfg.mode = "layernorm"
    /\ VarSupplied
    /\ VarClosed >= 1
    /\ vst.count = 0

====
